---------------------------- MODULE Spec2Model ----------------------------
(***************************************************************************)
(* Model of the Corsair Void HID driver (final revision, the one with the  *)
(* battery mutex and the four work items): the raw-event handler, the      *)
(* battery status mapper, the connect / disconnect handlers and the work   *)
(* handlers, as a state machine over the driver data of one bound device.  *)
(***************************************************************************)
EXTENDS Integers, Sequences, FiniteSets, TLC

(***************************************************************************)
(* Program constants.                                                      *)
(***************************************************************************)
CORSAIR_VOID_STATUS_REQUEST_ID == 201
CORSAIR_VOID_NOTIF_REQUEST_ID == 202
CORSAIR_VOID_SIDETONE_REQUEST_ID == 255
CORSAIR_VOID_BATTERY_REPORT_ID == 100
CORSAIR_VOID_FIRMWARE_REPORT_ID == 102
\* GENMASK(7, 7) and GENMASK(6, 0)
CORSAIR_VOID_MIC_MASK == 128
CORSAIR_VOID_CAPACITY_MASK == 127
\* the connection status byte of a headset that is connected normally
CONNECTION_NORMAL == 177
\* msecs_to_jiffies(100), kept in milliseconds
FIRMWARE_DELAY_MS == 100

\* the polling revision
CORSAIR_VOID_BATT_DATA_SIZE == 5
CORSAIR_VOID_MIC_UP == 128
PollRetries == 5

(***************************************************************************)
(* Bounds of the model: the inbound bytes the reports are drawn from.      *)
(***************************************************************************)
\* battery status bytes range over 0..MaxStatusCode (0..5 are known codes)
MaxStatusCode == 6
\* an inbound report with an id the driver does not know
OtherReportId == 1

\* the same report is delivered again at most MaxRepeat times in a row
MaxRepeat == 1
\* SpecCount counts at most MaxTransitions connects and as many disconnects
MaxTransitions == 2
\* sent keeps the first MaxSent report ids asked of the headset
MaxSent == 2
\* SpecEncode writes every number from 0 to MaxLevel to the two attributes
MaxLevel == 57
\* SpecSize delivers reports of 1 to MaxReportSize bytes
MaxReportSize == 6

\* byte 2 of a battery report: capacity in bits 0..6, mic in bit 7
\* (capacity 0 and 100 with the mic down, capacity 0 and 127 with the mic up)
Byte2Values == {0, 100, 128, 255}
\* byte 3 of a battery report: disconnected and searching, normal, largest byte
ConnectionCodes == {51, CONNECTION_NORMAL, 255}
StatusCodes == 0..MaxStatusCode
\* (major, minor) pairs carried by a firmware report
FirmwareVersions == {<<0, 0>>, <<1, 2>>}

MakeReport(id, b1, b2, b3, b4) ==
    [id |-> id, size |-> 5,
     data |-> (0 :> id @@ 1 :> b1 @@ 2 :> b2 @@ 3 :> b3 @@ 4 :> b4)]

BatteryReports ==
    {MakeReport(CORSAIR_VOID_BATTERY_REPORT_ID, 0, b2, b3, b4) :
        b2 \in Byte2Values, b3 \in ConnectionCodes, b4 \in StatusCodes}

FirmwareReports ==
    {MakeReport(CORSAIR_VOID_FIRMWARE_REPORT_ID, r[1], r[2], h[1], h[2]) :
        r \in FirmwareVersions, h \in FirmwareVersions}

OtherReports == {MakeReport(OtherReportId, 0, 0, 0, 0)}

Reports == BatteryReports \cup FirmwareReports \cup OtherReports

\* the value of hid_report before any report was delivered
NoReport == MakeReport(-1, 0, 0, 0, 0)

VARIABLES
    drvdata,        \* struct corsair_void_drvdata: the device state and the handle
    work,           \* the four work items of drvdata: TRUE when pending
    pc,             \* the raw event callback: "idle", or "handled" (at its return)
    hid_report,     \* the report the raw event was called with
    was_connected,  \* the local was_connected of the raw event
    changed,        \* power_supply_changed calls made by the raw event
    wireless,       \* usb_set_wireless_status values published by the raw event
    scheduled,      \* schedule_work / schedule_delayed_work calls of the raw event
    repeat,         \* how often the transport delivered hid_report again in a row
    psy,            \* the number of battery objects the power supply core holds
    n,              \* SpecCount: transitions of connected and runs of the battery work
    wpc,            \* the position of each work handler: "idle" when not running
    mutex,          \* battery_mutex: "free", or the context that holds it
    rm_pc,          \* the position of corsair_void_remove: "bound" before it starts
    unbind_saw,     \* the items pending and running when corsair_void_remove started
    expired,        \* the pending delayed work items whose delay has run out
    due,            \* connected when the delay of delayed_firmware_work ran out:
                    \* for the query on the queue (timer), for the running one (run)
    sent,           \* the report ids asked for with corsair_void_request_status
    cmd,            \* the last alert or sidetone command, with what it returned
    query,          \* SpecQuery: the last run of a query handler, with its requests
    bind,           \* the position of corsair_void_probe, and the items it initialised
    poll            \* SpecPoll: corsair_void_read_battery of the polling revision

vars == <<drvdata, work, pc, hid_report, was_connected, changed, wireless,
          scheduled, repeat, psy, n, wpc, mutex, rm_pc, unbind_saw, expired,
          due, sent, cmd, query, bind, poll>>

\* what only the stepwise work handlers and corsair_void_remove write
step_vars == <<wpc, mutex, rm_pc, unbind_saw, expired, due, sent>>

\* what only the counted actions and the commands write
obs_vars == <<n, cmd, query, bind, poll>>

\* the arguments, locals and call logs of the raw event callback
event_vars == <<pc, hid_report, was_connected, changed, wireless, scheduled, repeat>>

(***************************************************************************)
(* The C functions of the report path are modelled as functions from a     *)
(* context c to a context: c.d is drvdata, c.w the work items, and         *)
(* c.changed, c.wireless and c.scheduled log the calls made to the power   *)
(* supply core, the USB core and the work queue.                           *)
(***************************************************************************)

\* FIELD_GET(CORSAIR_VOID_MIC_MASK, byte)
FIELD_GET_MIC(byte) == (byte \div CORSAIR_VOID_MIC_MASK) % 2

\* a capacity read from the whole byte, the microphone bit included
FIELD_GET_CAPACITY_whole_byte(byte) == byte

\* FIELD_GET(CORSAIR_VOID_CAPACITY_MASK, byte)
FIELD_GET_CAPACITY(byte) == byte % (CORSAIR_VOID_CAPACITY_MASK + 1)

UnknownBattery ==
    [status |-> "Unknown", present |-> 0, capacity |-> 0, capacity_level |-> "Unknown"]

corsair_void_set_wireless_status(c) ==
    [c EXCEPT !.wireless = Append(@, c.d.connected)]

\* a reset that leaves the capacity as it was
set_unknown_batt_keeps_capacity(c) ==
    [c EXCEPT !.d.battery_data.status = "Unknown",
              !.d.battery_data.present = 0,
              !.d.battery_data.capacity_level = "Unknown"]

corsair_void_set_unknown_batt(c) ==
    [c EXCEPT !.d.battery_data = UnknownBattery]

\* a reset that leaves the headset firmware version as it was
set_unknown_data_keeps_firmware(c) ==
    corsair_void_set_wireless_status(
        [c EXCEPT !.d.connected = 0,
                  !.d.mic_up = 0])

\* a reset that forgets the receiver version with the headset version
set_unknown_data_clears_receiver(c) ==
    corsair_void_set_wireless_status(
        [c EXCEPT !.d.fw_receiver_major = 0,
                  !.d.fw_receiver_minor = 0,
                  !.d.fw_headset_major = 0,
                  !.d.fw_headset_minor = 0,
                  !.d.connected = 0,
                  !.d.mic_up = 0])

corsair_void_set_unknown_data(c) ==
    corsair_void_set_wireless_status(
        [c EXCEPT !.d.fw_headset_major = 0,
                  !.d.fw_headset_minor = 0,
                  !.d.connected = 0,
                  !.d.mic_up = 0])

\* the mapping of the first revision, where codes 4 and 5 both meant charging
BatteryStatus_4_charging(raw_battery_status) ==
    CASE raw_battery_status \in {1, 2, 3} -> "Discharging"
      [] raw_battery_status \in {4, 5} -> "Charging"

\* the status the switch of corsair_void_process_receiver stores for codes 1..5
BatteryStatus(raw_battery_status) ==
    CASE raw_battery_status \in {1, 2, 3} -> "Discharging"
      [] raw_battery_status = 4 -> "Full"
      [] raw_battery_status = 5 -> "Charging"

\* the capacity level after the switch: Normal unless the code is 2 or 3
BatteryCapacityLevel(raw_battery_status) ==
    IF raw_battery_status = 2 THEN "Low"
    ELSE IF raw_battery_status = 3 THEN "Critical"
    ELSE "Normal"

\* a comparison of the capacity alone instead of the whole record
BatteryChanged_capacity_only(c, orig_battery_data) ==
    IF orig_battery_data.capacity # c.d.battery_data.capacity /\ c.d.battery # "NULL"
    THEN [c EXCEPT !.changed = @ + 1]
    ELSE c

\* the memcmp of the saved battery data with the new one, and the notification
BatteryChanged(c, orig_battery_data) ==
    IF orig_battery_data # c.d.battery_data /\ c.d.battery # "NULL"
    THEN [c EXCEPT !.changed = @ + 1]
    ELSE c

\* a test that forgets the connection status
BatteryUnavailable_status_only(raw_connection_status, raw_battery_status) ==
    raw_battery_status = 0

\* the two tests that go to unknown_battery before the switch
BatteryUnavailable(raw_connection_status, raw_battery_status) ==
    \/ raw_connection_status # CONNECTION_NORMAL
    \/ raw_battery_status = 0

\* a default arm that breaks out of the switch instead
SwitchDefault_break(c) == c

\* the default arm of the switch: warn, then goto unknown_battery
SwitchDefault(c) == corsair_void_set_unknown_batt(c)

corsair_void_process_receiver(c, raw_battery_capacity, raw_connection_status, raw_battery_status) ==
    LET orig_battery_data == c.d.battery_data
        \* "Battery connected": written before the switch
        connected_batt == [c EXCEPT !.d.battery_data.present = 1,
                                    !.d.battery_data.capacity_level = "Normal"]
        known_batt ==
            corsair_void_set_wireless_status(
                [connected_batt EXCEPT
                    !.d.battery_data.status = BatteryStatus(raw_battery_status),
                    !.d.battery_data.capacity_level =
                        BatteryCapacityLevel(raw_battery_status),
                    !.d.battery_data.capacity = raw_battery_capacity])
        after ==
            IF BatteryUnavailable(raw_connection_status, raw_battery_status)
            THEN corsair_void_set_unknown_batt(c)
            ELSE IF raw_battery_status \in 1..5
            THEN known_batt
            ELSE SwitchDefault(connected_batt)
    IN  BatteryChanged(after, orig_battery_data)

\* schedule_work: queues the item unless it is already pending
schedule_work(c, item) ==
    [c EXCEPT !.w[item] = TRUE,
              !.scheduled = Append(@, [item |-> item, delay |-> 0])]

\* schedule_delayed_work: arms the timer unless the item is already pending
schedule_delayed_work(c, item, delay) ==
    [c EXCEPT !.w[item] = TRUE,
              !.scheduled = Append(@, [item |-> item, delay |-> delay])]

\* a connect handler that schedules the firmware query only
headset_connected_firmware_only(c) ==
    schedule_delayed_work(c, "delayed_firmware_work", FIRMWARE_DELAY_MS)

\* a connect handler that also asks for the battery status, as probe does
headset_connected_with_status_query(c) ==
    schedule_delayed_work(
        schedule_delayed_work(schedule_work(c, "battery_add_work"),
                              "delayed_status_work", FIRMWARE_DELAY_MS),
        "delayed_firmware_work", FIRMWARE_DELAY_MS)

corsair_void_headset_connected(c) ==
    schedule_delayed_work(schedule_work(c, "battery_add_work"),
                          "delayed_firmware_work", FIRMWARE_DELAY_MS)

\* a disconnect that only schedules the removal and forgets the battery
headset_disconnected_keeps_data(c) ==
    corsair_void_set_unknown_batt(schedule_work(c, "battery_remove_work"))

corsair_void_headset_disconnected(c) ==
    corsair_void_set_unknown_batt(
        corsair_void_set_unknown_data(
            schedule_work(c, "battery_remove_work")))

\* the test of the first revision, where any non-zero status meant connected
ConnectedFlag_nonzero(data) == IF data[3] # 0 THEN 1 ELSE 0

\* the connected flag the raw event stores for a battery report
ConnectedFlag(data) == IF data[3] = CONNECTION_NORMAL THEN 1 ELSE 0

\* the part of corsair_void_raw_event that decodes the report
\* a decoder that takes every report that is no battery report for a
\* firmware report
DecodeReport_any_id(c, r) ==
    IF r.id = CORSAIR_VOID_BATTERY_REPORT_ID
    THEN corsair_void_process_receiver(
            [c EXCEPT !.d.mic_up = FIELD_GET_MIC(r.data[2]),
                      !.d.connected = ConnectedFlag(r.data)],
            FIELD_GET_CAPACITY(r.data[2]), r.data[3], r.data[4])
    ELSE [c EXCEPT !.d.fw_receiver_major = r.data[1],
                   !.d.fw_receiver_minor = r.data[2],
                   !.d.fw_headset_major = r.data[3],
                   !.d.fw_headset_minor = r.data[4]]

DecodeReport(c, r) ==
    IF r.id = CORSAIR_VOID_BATTERY_REPORT_ID
    THEN corsair_void_process_receiver(
            [c EXCEPT !.d.mic_up = FIELD_GET_MIC(r.data[2]),
                      !.d.connected = ConnectedFlag(r.data)],
            FIELD_GET_CAPACITY(r.data[2]), r.data[3], r.data[4])
    ELSE IF r.id = CORSAIR_VOID_FIRMWARE_REPORT_ID
    THEN [c EXCEPT !.d.fw_receiver_major = r.data[1],
                   !.d.fw_receiver_minor = r.data[2],
                   !.d.fw_headset_major = r.data[3],
                   !.d.fw_headset_minor = r.data[4]]
    ELSE c

\* the part of corsair_void_raw_event that handles connect / disconnect
HandleTransition(c, was) ==
    IF was # c.d.connected
    THEN IF c.d.connected = 1
         THEN corsair_void_headset_connected(c)
         ELSE corsair_void_headset_disconnected(c)
    ELSE c

corsair_void_raw_event(r) ==
    LET c0 == [d |-> drvdata, w |-> work, changed |-> 0,
               wireless |-> <<>>, scheduled |-> <<>>]
        c2 == HandleTransition(DecodeReport(c0, r), drvdata.connected)
    IN  /\ drvdata' = c2.d
        /\ work' = c2.w
        /\ pc' = "handled"
        /\ hid_report' = r
        /\ was_connected' = drvdata.connected
        /\ changed' = c2.changed
        /\ wireless' = c2.wireless
        /\ scheduled' = c2.scheduled
        /\ UNCHANGED <<psy, step_vars>>

(***************************************************************************)
(* Work handlers, run by the work queue once their item is pending.  The   *)
(* two query handlers hand StatusRequest(id) to the transport and write    *)
(* nothing.                                                                *)
(***************************************************************************)

\* the buffer corsair_void_request_status hands to the transport
StatusRequest(id) == <<CORSAIR_VOID_STATUS_REQUEST_ID, id>>

\* query before the first run of a query handler
NoQuery ==
    [id |-> 0, attempts |-> <<>>, ret |-> "none", io |-> "none"]

\* a request that is sent once more when the transport failed it
request_status_retry(id, io_ok) ==
    LET request == [id |-> CORSAIR_VOID_STATUS_REQUEST_ID,
                    rtype |-> "HID_OUTPUT_REPORT",
                    len |-> 2,
                    data |-> StatusRequest(id)]
    IN  [id |-> id,
         attempts |-> IF io_ok THEN <<request>> ELSE <<request, request>>,
         ret |-> IF io_ok THEN "0" ELSE "EIO",
         io |-> IF io_ok THEN "0" ELSE "EIO"]

\* corsair_void_request_status: one call of hid_hw_raw_request; attempts are
\* the requests handed to the transport, io what the transport answered
\* (io_ok is FALSE when it fails), ret what the function returns
corsair_void_request_status(id, io_ok) ==
    LET request == [id |-> CORSAIR_VOID_STATUS_REQUEST_ID,
                    rtype |-> "HID_OUTPUT_REPORT",
                    len |-> 2,
                    data |-> StatusRequest(id)]
    IN  [id |-> id,
         attempts |-> <<request>>,
         ret |-> IF io_ok THEN "0" ELSE "EIO",
         io |-> IF io_ok THEN "0" ELSE "EIO"]

corsair_void_status_work_handler ==
    /\ work["delayed_status_work"]
    /\ work' = [work EXCEPT !["delayed_status_work"] = FALSE]
    /\ UNCHANGED <<drvdata, event_vars, psy, step_vars>>

corsair_void_firmware_work_handler ==
    /\ work["delayed_firmware_work"]
    /\ work' = [work EXCEPT !["delayed_firmware_work"] = FALSE]
    /\ UNCHANGED <<drvdata, event_vars, psy, step_vars>>

\* a removal that unregisters without looking at the handle
UnregisterBattery_unchecked(b) ==
    [handle |-> "NULL", psy |-> b.psy - 1]

\* the locked section of the remove handler, on the handle and the objects
\* the power supply core holds: power_supply_unregister if there is a handle
UnregisterBattery(b) ==
    IF b.handle # "NULL"
    THEN [handle |-> "NULL", psy |-> b.psy - 1]
    ELSE b

\* a creation that registers without looking at the handle
RegisterBattery_unchecked(b, registered) ==
    IF registered
    THEN [handle |-> "registered", psy |-> b.psy + 1]
    ELSE [handle |-> "NULL", psy |-> b.psy]

\* the locked section of the add handler: power_supply_register if there is no
\* handle; registered is FALSE when it or power_supply_powers fails, and the
\* handle is NULL again
RegisterBattery(b, registered) ==
    IF b.handle = "NULL"
    THEN IF registered
         THEN [handle |-> "registered", psy |-> b.psy + 1]
         ELSE b
    ELSE b

\* a removal that also resets the battery data
battery_remove_work_handler_resets_data ==
    /\ work["battery_remove_work"]
    /\ work' = [work EXCEPT !["battery_remove_work"] = FALSE]
    /\ LET b == UnregisterBattery([handle |-> drvdata.battery, psy |-> psy])
       IN  /\ drvdata' = [drvdata EXCEPT !.battery = b.handle,
                                         !.battery_data = UnknownBattery]
           /\ psy' = b.psy
    /\ UNCHANGED <<event_vars, step_vars>>

corsair_void_battery_remove_work_handler ==
    /\ work["battery_remove_work"]
    /\ work' = [work EXCEPT !["battery_remove_work"] = FALSE]
    /\ LET b == UnregisterBattery([handle |-> drvdata.battery, psy |-> psy])
       IN  /\ drvdata' = [drvdata EXCEPT !.battery = b.handle]
           /\ psy' = b.psy
    /\ UNCHANGED <<event_vars, step_vars>>

corsair_void_battery_add_work_handler(registered) ==
    /\ work["battery_add_work"]
    /\ work' = [work EXCEPT !["battery_add_work"] = FALSE]
    /\ LET b == RegisterBattery([handle |-> drvdata.battery, psy |-> psy], registered)
       IN  /\ drvdata' = [drvdata EXCEPT !.battery = b.handle]
           /\ psy' = b.psy
    /\ UNCHANGED <<event_vars, step_vars>>

(***************************************************************************)
(* The two sysfs commands.  buf is what user space wrote, a sequence of    *)
(* characters; the result is what the store callback returns together with *)
(* the request it handed to the transport, <<>> if it handed none.         *)
(***************************************************************************)

Err(e) == [errno |-> e, count |-> 0]
Ok(count) == [errno |-> "0", count |-> count]

DigitValue(ch) ==
    CASE ch = "0" -> 0 [] ch = "1" -> 1 [] ch = "2" -> 2 [] ch = "3" -> 3
      [] ch = "4" -> 4 [] ch = "5" -> 5 [] ch = "6" -> 6 [] ch = "7" -> 7
      [] ch = "8" -> 8 [] ch = "9" -> 9 [] OTHER -> -1

\* the value of a sequence of decimal digits, -1 if it holds anything else
RECURSIVE DecimalValue(_)
DecimalValue(digits) ==
    IF digits = <<>> THEN 0
    ELSE LET front == DecimalValue(SubSeq(digits, 1, Len(digits) - 1))
             last == DigitValue(digits[Len(digits)])
         IN  IF front < 0 \/ last < 0 THEN -1 ELSE 10 * front + last

\* kstrtou8(buf, 10, &res): an optional '+', decimal digits and an optional
\* newline at the end; fails on anything else and on a value above 255
kstrtou8(buf) ==
    LET no_nl == IF buf # <<>> /\ buf[Len(buf)] = "\n"
                 THEN SubSeq(buf, 1, Len(buf) - 1) ELSE buf
        digits == IF no_nl # <<>> /\ no_nl[1] = "+" THEN Tail(no_nl) ELSE no_nl
        value == DecimalValue(digits)
    IN  IF digits = <<>> \/ value < 0 \/ value > 255
        THEN [ok |-> FALSE, value |-> 0]
        ELSE [ok |-> TRUE, value |-> value]

\* hid_hw_raw_request: the request reaches the transport, which answers with
\* the number of bytes it took or, when it fails, with an error
hid_hw_raw_request(request, io_ok) ==
    [ret |-> IF io_ok THEN Ok(request.len) ELSE Err("EIO"), out |-> request]

\* a store callback that returns before it calls the transport
Refused(e) == [ret |-> Err(e), out |-> <<>>, io |-> "none"]

\* a callback that returns count whatever the transport answered
StoreResult_always_count(r, count) ==
    [ret |-> Ok(count), out |-> r.out, io |-> r.ret.errno]

\* the end of both store callbacks: the error of the transport if ret < 0,
\* count otherwise; io keeps what the transport answered
StoreResult(r, count) ==
    [ret |-> IF r.ret.errno # "0" THEN r.ret ELSE Ok(count),
     out |-> r.out, io |-> r.ret.errno]

\* a test that lets alert 2 through
AlertIdRejected_above_2(alert_id) == alert_id > 2

\* "Only accept 0 or 1 for alert ID"
AlertIdRejected(alert_id) == alert_id >= 2

\* a buffer that always carries alert 0
AlertBuffer_no_id(alert_id) == <<CORSAIR_VOID_NOTIF_REQUEST_ID, 2, 0>>

\* send_buf of corsair_void_send_alert
AlertBuffer(alert_id) == <<CORSAIR_VOID_NOTIF_REQUEST_ID, 2, alert_id>>

\* a store callback that does not look at connected
send_alert_unchecked(connected, buf, io_ok) ==
    LET alert_id == kstrtou8(buf)
    IN  IF ~alert_id.ok THEN Refused("EINVAL")
        ELSE IF AlertIdRejected(alert_id.value) THEN Refused("EINVAL")
        ELSE StoreResult(
                hid_hw_raw_request(
                    [id |-> CORSAIR_VOID_NOTIF_REQUEST_ID,
                     rtype |-> "HID_OUTPUT_REPORT",
                     len |-> 3,
                     data |-> AlertBuffer(alert_id.value)],
                    io_ok),
                Len(buf))

corsair_void_send_alert(connected, buf, io_ok) ==
    LET alert_id == kstrtou8(buf)
    IN  IF connected = 0 THEN Refused("ENODEV")
        ELSE IF ~alert_id.ok THEN Refused("EINVAL")
        ELSE IF AlertIdRejected(alert_id.value) THEN Refused("EINVAL")
        ELSE StoreResult(
                hid_hw_raw_request(
                    [id |-> CORSAIR_VOID_NOTIF_REQUEST_ID,
                     rtype |-> "HID_OUTPUT_REPORT",
                     len |-> 3,
                     data |-> AlertBuffer(alert_id.value)],
                    io_ok),
                Len(buf))

\* a test that lets sidetone 56 through
SidetoneRejected_above_56(sidetone) == sidetone > 56

\* "sidetone must be between 0 and 55 inclusive"
SidetoneRejected(sidetone) == sidetone > 55

\* the 64 bytes of the sidetone request, each an unsigned char: twelve set,
\* the rest left zero by kzalloc
SidetoneBuffer(sidetone) ==
    [i \in 1..64 |->
        IF i <= 12
        THEN <<CORSAIR_VOID_SIDETONE_REQUEST_ID, 11, 0, 255, 4, 14, 255, 5, 1,
               4, 0, (sidetone + 200) % 256>>[i]
        ELSE 0]

corsair_void_send_sidetone(connected, buf, alloc_ok, io_ok) ==
    LET sidetone == kstrtou8(buf)
    IN  IF connected = 0 THEN Refused("ENODEV")
        ELSE IF ~sidetone.ok THEN Refused("EINVAL")
        ELSE IF SidetoneRejected(sidetone.value) THEN Refused("EINVAL")
        ELSE IF ~alloc_ok THEN Refused("ENOMEM")
        ELSE StoreResult(
                hid_hw_raw_request(
                    [id |-> CORSAIR_VOID_SIDETONE_REQUEST_ID,
                     rtype |-> "HID_FEATURE_REPORT",
                     len |-> 64,
                     data |-> SidetoneBuffer(sidetone.value)],
                    io_ok),
                Len(buf))

\* what user space writes to the two attributes
CommandInputs ==
    {<<"0">>, <<"1", "\n">>, <<"2">>, <<"+", "5", "5">>, <<"5", "6">>,
     <<"2", "5", "6">>, <<"x">>, <<>>}

\* cmd before the first command
NoCommand ==
    [op |-> "none", buf |-> <<>>, connected |-> 0, ret |-> Ok(0), out |-> <<>>,
     io |-> "none"]

\* the character of a decimal digit
DigitChar(d) == <<"0", "1", "2", "3", "4", "5", "6", "7", "8", "9">>[d + 1]

\* what user space writes for the number v: its decimal digits
RECURSIVE ToDecimal(_)
ToDecimal(v) ==
    IF v < 10 THEN <<DigitChar(v)>>
    ELSE Append(ToDecimal(v \div 10), DigitChar(v % 10))

\* "%02d": at least two digits
TwoDigits(v) == IF v < 10 THEN <<"0">> \o ToDecimal(v) ELSE ToDecimal(v)

\* a test that takes a pair with one zero for unknown
FirmwareUnknown_either(major, minor) == major = 0 \/ minor = 0

\* the test of corsair_void_report_firmware for a version that is not known
FirmwareUnknown(major, minor) == major = 0 /\ minor = 0

\* the show callback of fw_version_receiver and fw_version_headset:
\* -ENODATA, or sysfs_emit(buf, "%d.%02d\n", major, minor), which returns the
\* number of characters it wrote to buf
corsair_void_report_firmware(d, name) ==
    LET major == IF name = "fw_version_receiver"
                 THEN d.fw_receiver_major ELSE d.fw_headset_major
        minor == IF name = "fw_version_receiver"
                 THEN d.fw_receiver_minor ELSE d.fw_headset_minor
        text == ToDecimal(major) \o <<".">> \o TwoDigits(minor) \o <<"\n">>
    IN  IF FirmwareUnknown(major, minor)
        THEN Refused("ENODATA")
        ELSE [ret |-> Ok(Len(text)), out |-> text, io |-> "none"]

\* every number from 0 to MaxLevel, the largest and the first too large
\* unsigned char, and what is not a number
EncodeInputs ==
    {ToDecimal(v) : v \in 0..MaxLevel}
        \cup {<<"2", "5", "5">>, <<"2", "5", "6">>, <<"1", "\n">>, <<"x">>}

(***************************************************************************)
(* corsair_void_read_battery of the polling revision: the battery status   *)
(* is asked for with a control message and read back from the interrupt    *)
(* endpoint, up to PollRetries times.  data_buf is kept as its bytes 0, 2  *)
(* and 4; errors are named.                                                *)
(***************************************************************************)

\* the buffer kzalloc returns
ZeroedBuffer == [id |-> 0, capacity |-> 0, status |-> 0]

\* poll before the first call
NoPoll ==
    [pc |-> "idle", retries |-> 0, attempts |-> 0, ctrl_failed |-> 0,
     ret |-> "0", data_buf |-> ZeroedBuffer, actual_size |-> 0,
     orig |-> UnknownBattery, battery_data |-> UnknownBattery]

\* a loop test that does not count
PollRetry_forever(ret, data_buf, retries) ==
    [again |-> ret \in {"EAGAIN", "ETIMEDOUT"} \/ data_buf.id # 100,
     retries |-> retries]

\* the test of the do-while: retry after the wrong packet, a timeout or an
\* interruption while there are retries left; --retries is evaluated only
\* when the first operand of && holds
PollRetry(ret, data_buf, retries) ==
    IF ret \in {"EAGAIN", "ETIMEDOUT"} \/ data_buf.id # 100
    THEN [again |-> retries - 1 # 0, retries |-> retries - 1]
    ELSE [again |-> FALSE, retries |-> retries]

\* the labels unknown_data and failed_alloc
PollUnknown(p) == [p EXCEPT !.pc = "done", !.battery_data = UnknownBattery]

\* the part of corsair_void_read_battery after the loop
PollProcess(p) ==
    IF p.ret # "0" \/ p.data_buf.id # 100 \/ p.actual_size # CORSAIR_VOID_BATT_DATA_SIZE
    THEN PollUnknown(p)
    ELSE IF p.data_buf.status # 0
    THEN IF p.data_buf.status \in {1, 2, 4, 5}
         THEN [p EXCEPT
                !.pc = "done",
                !.battery_data =
                    [status |-> IF p.data_buf.status \in {1, 2}
                                THEN "Discharging" ELSE "Charging",
                     present |-> 1,
                     capacity |-> IF (p.data_buf.capacity \div CORSAIR_VOID_MIC_UP) % 2 = 1
                                  THEN p.data_buf.capacity - CORSAIR_VOID_MIC_UP
                                  ELSE p.data_buf.capacity,
                     capacity_level |-> "Unknown"]]
         ELSE PollUnknown(p)
    ELSE PollUnknown(p)

(***************************************************************************)
(* The state when corsair_void_probe returns.                              *)
(***************************************************************************)
Init ==
    /\ drvdata = [battery_data |-> UnknownBattery,
                  mic_up |-> 0,
                  connected |-> 0,
                  fw_receiver_major |-> 0,
                  fw_receiver_minor |-> 0,
                  fw_headset_major |-> 0,
                  fw_headset_minor |-> 0,
                  battery |-> "NULL"]
    /\ work = [delayed_status_work |-> TRUE,
               delayed_firmware_work |-> TRUE,
               battery_remove_work |-> FALSE,
               battery_add_work |-> FALSE]
    /\ pc = "idle"
    /\ hid_report = NoReport
    /\ was_connected = 0
    /\ changed = 0
    /\ wireless = <<>>
    /\ scheduled = <<>>
    /\ repeat = 0
    /\ psy = 0
    /\ n = [connect |-> 0, disconnect |-> 0, add_run |-> 0, remove_run |-> 0]
    /\ wpc = [delayed_status_work |-> "idle",
              delayed_firmware_work |-> "idle",
              battery_remove_work |-> "idle",
              battery_add_work |-> "idle"]
    /\ mutex = "free"
    /\ rm_pc = "bound"
    /\ unbind_saw = [pending |-> {}, running |-> {}]
    /\ expired = {}
    /\ due = [timer |-> 0, run |-> 0]
    /\ sent = <<>>
    /\ cmd = NoCommand
    /\ query = NoQuery
    /\ bind = [pc |-> "bound", init |-> DOMAIN work]
    /\ poll = NoPoll

(***************************************************************************)
(* The transport delivers the reports of one device one at a time.         *)
(***************************************************************************)

\* a report of the set S arrives while no raw event is in progress
RawEventOf(S) ==
    /\ pc = "idle"
    /\ \E r \in S : corsair_void_raw_event(r)
    /\ repeat' = 0

RawEvent == RawEventOf(Reports)

\* the raw event returns and the transport delivers the same report again
RawEventRepeat ==
    /\ pc = "handled"
    /\ repeat < MaxRepeat
    /\ corsair_void_raw_event(hid_report)
    /\ repeat' = repeat + 1

\* the raw event returns 0: its arguments and locals are gone
RawEventReturn ==
    /\ pc = "handled"
    /\ pc' = "idle"
    /\ hid_report' = NoReport
    /\ was_connected' = 0
    /\ changed' = 0
    /\ wireless' = <<>>
    /\ scheduled' = <<>>
    /\ repeat' = 0
    /\ UNCHANGED <<drvdata, work, psy, step_vars>>

BatteryAddWork ==
    \E registered \in BOOLEAN : corsair_void_battery_add_work_handler(registered)

Next ==
    \/ RawEvent /\ UNCHANGED obs_vars
    \/ RawEventRepeat /\ UNCHANGED obs_vars
    \/ RawEventReturn /\ UNCHANGED obs_vars
    \/ corsair_void_status_work_handler /\ UNCHANGED obs_vars
    \/ corsair_void_firmware_work_handler /\ UNCHANGED obs_vars
    \/ corsair_void_battery_remove_work_handler /\ UNCHANGED obs_vars
    \/ BatteryAddWork /\ UNCHANGED obs_vars

Spec == Init /\ [][Next]_vars

(***************************************************************************)
(* SpecCount: the same handlers under a few reports, with the transitions  *)
(* of connected and the runs of the two battery work handlers counted.     *)
(***************************************************************************)

\* a connecting report, a disconnecting report and a firmware report
FewReports ==
    {MakeReport(CORSAIR_VOID_BATTERY_REPORT_ID, 0, 100, CONNECTION_NORMAL, 1),
     MakeReport(CORSAIR_VOID_BATTERY_REPORT_ID, 0, 128, 51, 0),
     MakeReport(CORSAIR_VOID_FIRMWARE_REPORT_ID, 1, 2, 1, 2)}

\* a raw event, counted; no more than MaxTransitions changes each way
CountedEvent ==
    /\ RawEventOf(FewReports)
    /\ n' = [n EXCEPT
              !.connect = IF drvdata.connected = 0 /\ drvdata'.connected = 1
                          THEN @ + 1 ELSE @,
              !.disconnect = IF drvdata.connected = 1 /\ drvdata'.connected = 0
                             THEN @ + 1 ELSE @]
    /\ n'.connect <= MaxTransitions
    /\ n'.disconnect <= MaxTransitions
    /\ UNCHANGED <<cmd, query, bind, poll>>

CountedAdd ==
    /\ BatteryAddWork
    /\ n' = [n EXCEPT !.add_run = @ + 1]
    /\ UNCHANGED <<cmd, query, bind, poll>>

CountedRemove ==
    /\ corsair_void_battery_remove_work_handler
    /\ n' = [n EXCEPT !.remove_run = @ + 1]
    /\ UNCHANGED <<cmd, query, bind, poll>>

NextCount ==
    \/ CountedEvent
    \/ RawEventReturn /\ UNCHANGED obs_vars
    \/ corsair_void_status_work_handler /\ UNCHANGED obs_vars
    \/ corsair_void_firmware_work_handler /\ UNCHANGED obs_vars
    \/ CountedRemove
    \/ CountedAdd

SpecCount == Init /\ [][NextCount]_vars

(***************************************************************************)
(* SpecCmd: user space writes the two attributes between the raw events    *)
(* and the work handlers.                                                  *)
(***************************************************************************)

\* user space writes one of the inputs S to the send_alert attribute
SendAlertOf(S) ==
    /\ \E buf \in S, io_ok \in BOOLEAN :
        LET r == corsair_void_send_alert(drvdata.connected, buf, io_ok)
        IN  cmd' = [op |-> "send_alert", buf |-> buf,
                    connected |-> drvdata.connected,
                    ret |-> r.ret, out |-> r.out, io |-> r.io]
    /\ UNCHANGED <<drvdata, work, event_vars, psy, n, query, bind, poll, step_vars>>

\* user space writes one of the inputs S to the set_sidetone attribute
SendSidetoneOf(S) ==
    /\ \E buf \in S, alloc_ok \in BOOLEAN, io_ok \in BOOLEAN :
        LET r == corsair_void_send_sidetone(drvdata.connected, buf, alloc_ok, io_ok)
        IN  cmd' = [op |-> "send_sidetone", buf |-> buf,
                    connected |-> drvdata.connected,
                    ret |-> r.ret, out |-> r.out, io |-> r.io]
    /\ UNCHANGED <<drvdata, work, event_vars, psy, n, query, bind, poll, step_vars>>

SendAlert == SendAlertOf(CommandInputs)

SendSidetone == SendSidetoneOf(CommandInputs)

NextCmd ==
    \/ RawEventOf(FewReports) /\ UNCHANGED obs_vars
    \/ RawEventReturn /\ UNCHANGED obs_vars
    \/ corsair_void_status_work_handler /\ UNCHANGED obs_vars
    \/ corsair_void_firmware_work_handler /\ UNCHANGED obs_vars
    \/ corsair_void_battery_remove_work_handler /\ UNCHANGED obs_vars
    \/ BatteryAddWork /\ UNCHANGED obs_vars
    \/ SendAlert
    \/ SendSidetone

SpecCmd == Init /\ [][NextCmd]_vars

(***************************************************************************)
(* SpecSize: raw events whose size argument is anything from 1 to          *)
(* MaxReportSize.  data[0..4] of a report shorter than 5 bytes are the     *)
(* bytes the buffer of the transport holds behind it, which may be any.    *)
(***************************************************************************)

SizedReports ==
    {[r EXCEPT !.size = size] : r \in FewReports, size \in 1..MaxReportSize}

NextSize ==
    \/ RawEventOf(SizedReports) /\ UNCHANGED obs_vars
    \/ RawEventReturn /\ UNCHANGED obs_vars
    \/ corsair_void_status_work_handler /\ UNCHANGED obs_vars
    \/ corsair_void_firmware_work_handler /\ UNCHANGED obs_vars
    \/ corsair_void_battery_remove_work_handler /\ UNCHANGED obs_vars
    \/ BatteryAddWork /\ UNCHANGED obs_vars

SpecSize == Init /\ [][NextSize]_vars

(***************************************************************************)
(* SpecDecode: battery reports with every value of byte 2, connecting and  *)
(* not, with a known and an unknown battery status.                        *)
(***************************************************************************)

\* the values of a u8
ByteValues == 0..255

DecodeReports ==
    {MakeReport(CORSAIR_VOID_BATTERY_REPORT_ID, 0, b2, b3, b4) :
        b2 \in ByteValues, b3 \in {CONNECTION_NORMAL, 51}, b4 \in {0, 1}}

NextDecode ==
    \/ RawEventOf(DecodeReports) /\ UNCHANGED obs_vars
    \/ RawEventReturn /\ UNCHANGED obs_vars

SpecDecode == Init /\ [][NextDecode]_vars

(***************************************************************************)
(* SpecPoll: calls of corsair_void_read_battery, one after the other, with *)
(* every outcome of the allocation and of the two USB calls.               *)
(***************************************************************************)

\* what usb_bulk_msg may leave in data_buf
PollBuffers ==
    {[id |-> id, capacity |-> c, status |-> st] :
        id \in {OtherReportId, 100}, c \in {54, 228}, st \in {0, 1, 3, 5}}

\* what usb_control_msg_send and usb_bulk_msg may return
PollErrors == {"EAGAIN", "ETIMEDOUT", "EPIPE"}

poll_frame == <<drvdata, work, event_vars, psy, n, cmd, query, bind, step_vars>>

\* the function is called: retries = 5, actual_size = 0, and kzalloc, which
\* fails or returns a zeroed buffer
PollStart ==
    /\ poll.pc = "idle"
    /\ \E alloc_ok \in BOOLEAN :
        LET p == [poll EXCEPT !.retries = PollRetries, !.attempts = 0,
                              !.ctrl_failed = 0, !.ret = "0",
                              !.data_buf = ZeroedBuffer, !.actual_size = 0,
                              !.orig = poll.battery_data]
        IN  poll' = IF alloc_ok
                    THEN [p EXCEPT !.pc = "loop"]
                    ELSE PollUnknown([p EXCEPT !.ret = "ENOMEM"])
    /\ UNCHANGED poll_frame

\* what one pass of the loop gets from the transport: the control message
\* fails and leaves data_buf and actual_size as they were, or it is sent and
\* usb_bulk_msg returns, having written data_buf and actual_size
PollOutcomes(p) ==
    {[ctrl_ok |-> FALSE, ret |-> e, data_buf |-> p.data_buf,
      actual_size |-> p.actual_size] : e \in PollErrors}
    \cup
    {[ctrl_ok |-> TRUE, ret |-> r, data_buf |-> b, actual_size |-> size] :
        r \in {"0"} \cup PollErrors, b \in PollBuffers \cup {p.data_buf},
        size \in {3, CORSAIR_VOID_BATT_DATA_SIZE}}

\* one pass of the loop with its test
PollAttempt ==
    /\ poll.pc = "loop"
    /\ \E o \in PollOutcomes(poll) :
        LET test == PollRetry(o.ret, o.data_buf, poll.retries)
        IN  poll' = [poll EXCEPT
                        !.attempts = @ + 1,
                        !.ctrl_failed = IF o.ctrl_ok THEN @ ELSE @ + 1,
                        !.ret = o.ret,
                        !.data_buf = o.data_buf,
                        !.actual_size = o.actual_size,
                        !.retries = test.retries,
                        !.pc = IF test.again THEN "loop" ELSE "read"]
    /\ UNCHANGED poll_frame

\* the loop is left: the data is processed or the unknown record is stored
PollFinish ==
    /\ poll.pc = "read"
    /\ poll' = PollProcess(poll)
    /\ UNCHANGED poll_frame

\* the function returns poll.ret
PollReturn ==
    /\ poll.pc = "done"
    /\ poll' = [poll EXCEPT !.pc = "idle"]
    /\ UNCHANGED poll_frame

NextPoll ==
    \/ PollStart
    \/ PollAttempt
    \/ PollFinish
    \/ PollReturn

SpecPoll == Init /\ [][NextPoll]_vars

(***************************************************************************)
(* SpecQuery: the work handlers between raw events, with the requests of   *)
(* the two query handlers and the answer of the transport observed.        *)
(***************************************************************************)

\* a run of corsair_void_status_work_handler or
\* corsair_void_firmware_work_handler: the item is no longer pending and the
\* handler calls corsair_void_request_status, whose result it drops
QueryWork(item, id) ==
    /\ work[item]
    /\ work' = [work EXCEPT ![item] = FALSE]
    /\ \E io_ok \in BOOLEAN : query' = corsair_void_request_status(id, io_ok)
    /\ UNCHANGED <<drvdata, event_vars, psy, n, cmd, bind, poll, step_vars>>

StatusQueryWork ==
    QueryWork("delayed_status_work", CORSAIR_VOID_BATTERY_REPORT_ID)

FirmwareQueryWork ==
    QueryWork("delayed_firmware_work", CORSAIR_VOID_FIRMWARE_REPORT_ID)

NextQuery ==
    \/ RawEventOf(FewReports) /\ UNCHANGED obs_vars
    \/ RawEventReturn /\ UNCHANGED obs_vars
    \/ StatusQueryWork
    \/ FirmwareQueryWork
    \/ corsair_void_battery_remove_work_handler /\ UNCHANGED obs_vars
    \/ BatteryAddWork /\ UNCHANGED obs_vars

SpecQuery == Init /\ [][NextQuery]_vars

(***************************************************************************)
(* SpecEncode: the two commands under every level up to MaxLevel, between  *)
(* raw events that connect and disconnect the headset.  One command is     *)
(* observed at a time; the work handlers, which no command depends on, do  *)
(* not run.                                                                *)
(***************************************************************************)

\* the last command is no longer looked at
CommandForget ==
    /\ cmd # NoCommand
    /\ cmd' = NoCommand
    /\ UNCHANGED <<drvdata, work, event_vars, psy, n, query, bind, poll, step_vars>>

NextEncode ==
    \/ RawEventOf(FewReports) /\ UNCHANGED obs_vars
    \/ RawEventReturn /\ UNCHANGED obs_vars
    \/ cmd = NoCommand /\ SendAlertOf(EncodeInputs)
    \/ cmd = NoCommand /\ SendSidetoneOf(EncodeInputs)
    \/ CommandForget

SpecEncode == Init /\ [][NextEncode]_vars

(***************************************************************************)
(* SpecRead: user space reads the two firmware attributes between raw      *)
(* events that store firmware versions with none, one or both components   *)
(* zero.  One read is observed at a time; the work handlers, which no read *)
(* depends on, do not run.                                                 *)
(***************************************************************************)

\* version pairs: unknown, one component zero, one to three digits
FirmwarePairs == {<<0, 0>>, <<0, 3>>, <<3, 0>>, <<1, 2>>, <<12, 255>>}

ReadReports ==
    {MakeReport(CORSAIR_VOID_FIRMWARE_REPORT_ID, r[1], r[2], h[1], h[2]) :
        r \in FirmwarePairs, h \in FirmwarePairs}
    \cup {MakeReport(CORSAIR_VOID_BATTERY_REPORT_ID, 0, 100, CONNECTION_NORMAL, 1),
          MakeReport(CORSAIR_VOID_BATTERY_REPORT_ID, 0, 128, 51, 0)}

ReportFirmware ==
    /\ \E name \in {"fw_version_receiver", "fw_version_headset"} :
        LET r == corsair_void_report_firmware(drvdata, name)
        IN  cmd' = [op |-> name, buf |-> <<>>,
                    connected |-> drvdata.connected,
                    ret |-> r.ret, out |-> r.out, io |-> r.io]
    /\ UNCHANGED <<drvdata, work, event_vars, psy, n, query, bind, poll, step_vars>>

NextRead ==
    \/ RawEventOf(ReadReports) /\ UNCHANGED obs_vars
    \/ RawEventReturn /\ UNCHANGED obs_vars
    \/ cmd = NoCommand /\ ReportFirmware
    \/ CommandForget

SpecRead == Init /\ [][NextRead]_vars

(***************************************************************************)
(* SpecStep: the contexts of the driver step by step.  The raw event stops *)
(* at battery_mutex, the work handlers run in a worker between the steps   *)
(* of the other contexts, the delayed items wait for their timer, and      *)
(* corsair_void_remove unbinds the device call by call.                    *)
(***************************************************************************)

WorkItems ==
    {"delayed_status_work", "delayed_firmware_work",
     "battery_remove_work", "battery_add_work"}

DelayedItems == {"delayed_status_work", "delayed_firmware_work"}

\* a lock that does not wait for its holder
MutexAvailable_always(m) == TRUE

\* mutex_lock returns once no context holds the mutex
MutexAvailable(m) == m = "free"

\* the context c0 of a raw event that starts in the current state
EventContext ==
    [d |-> drvdata, w |-> work, changed |-> changed,
     wireless |-> wireless, scheduled |-> scheduled]

\* raw_event up to the memcmp of corsair_void_process_receiver: the report is
\* decoded and stored; the notification waits for battery_mutex if the
\* battery data changed
RawEventDecodeOf(S) ==
    /\ pc = "idle"
    /\ rm_pc = "bound"
    /\ \E r \in S :
        LET c0 == [d |-> [drvdata EXCEPT !.battery = "NULL"], w |-> work,
                   changed |-> 0, wireless |-> <<>>, scheduled |-> <<>>]
            c1 == DecodeReport(c0, r)
        IN  /\ drvdata' = [c1.d EXCEPT !.battery = drvdata.battery]
            /\ hid_report' = r
            /\ was_connected' = drvdata.connected
            /\ changed' = 0
            /\ wireless' = c1.wireless
            /\ scheduled' = <<>>
            /\ pc' = IF /\ r.id = CORSAIR_VOID_BATTERY_REPORT_ID
                        /\ c1.d.battery_data # drvdata.battery_data
                     THEN "lock" ELSE "transition"
    /\ UNCHANGED <<work, repeat, psy, obs_vars, step_vars>>

RawEventDecode == RawEventDecodeOf(FewReports)

\* mutex_lock(&drvdata->battery_mutex) in corsair_void_process_receiver
RawEventLock ==
    /\ pc = "lock"
    /\ MutexAvailable(mutex)
    /\ mutex' = "raw_event"
    /\ pc' = "locked"
    /\ UNCHANGED <<drvdata, work, hid_report, was_connected, changed, wireless,
                   scheduled, repeat, psy, obs_vars, wpc, rm_pc, unbind_saw,
                   expired, due, sent>>

\* a notification sent without a look at the handle
RawEventNotify_unchecked ==
    /\ pc = "locked"
    /\ changed' = 1
    /\ mutex' = "free"
    /\ pc' = "transition"
    /\ UNCHANGED <<drvdata, work, hid_report, was_connected, wireless,
                   scheduled, repeat, psy, obs_vars, wpc, rm_pc, unbind_saw,
                   expired, due, sent>>

\* power_supply_changed if there is a battery object, and mutex_unlock
RawEventNotify ==
    /\ pc = "locked"
    /\ changed' = IF drvdata.battery # "NULL" THEN 1 ELSE 0
    /\ mutex' = "free"
    /\ pc' = "transition"
    /\ UNCHANGED <<drvdata, work, hid_report, was_connected, wireless,
                   scheduled, repeat, psy, obs_vars, wpc, rm_pc, unbind_saw,
                   expired, due, sent>>

\* an end of raw_event that registers the battery object itself on a connect
RawEventTransition_registers_inline ==
    /\ pc = "transition"
    /\ LET c2 == HandleTransition(EventContext, was_connected)
           b == IF was_connected = 0 /\ drvdata.connected = 1
                THEN RegisterBattery([handle |-> drvdata.battery, psy |-> psy], TRUE)
                ELSE [handle |-> drvdata.battery, psy |-> psy]
       IN  /\ drvdata' = [c2.d EXCEPT !.battery = b.handle]
           /\ psy' = b.psy
           /\ work' = c2.w
           /\ wireless' = c2.wireless
           /\ scheduled' = c2.scheduled
    /\ pc' = "handled"
    /\ UNCHANGED <<hid_report, was_connected, changed, repeat, obs_vars, step_vars>>

\* the end of raw_event: headset_connected or headset_disconnected if
\* connected changed
RawEventTransition ==
    /\ pc = "transition"
    /\ LET c2 == HandleTransition(EventContext, was_connected)
       IN  /\ drvdata' = c2.d
           /\ work' = c2.w
           /\ wireless' = c2.wireless
           /\ scheduled' = c2.scheduled
    /\ pc' = "handled"
    /\ UNCHANGED <<hid_report, was_connected, changed, repeat, psy, obs_vars, step_vars>>

\* the delay of every armed item runs out together with the others, which
\* were armed in the same call of probe; delayed_status_work, armed first,
\* may also be one tick ahead; due records connected at that moment when the
\* expiry is observed
TimerExpireOf(observed) ==
    LET armed == {i \in DelayedItems : work[i] /\ i \notin expired}
    IN  /\ armed # {}
        /\ \E S \in {armed, armed \cap {"delayed_status_work"}} :
              /\ S # {}
              /\ expired' = expired \cup S
              /\ due' = IF observed /\ "delayed_firmware_work" \in S
                        THEN [due EXCEPT !.timer = drvdata.connected] ELSE due
        /\ UNCHANGED <<drvdata, work, event_vars, psy, obs_vars, wpc, mutex, rm_pc,
                   unbind_saw, sent>>

TimerExpire == TimerExpireOf(FALSE)

\* a worker takes a queued item: it is no longer pending, its handler runs
WorkStart(item) ==
    /\ work[item]
    /\ item \in DelayedItems => item \in expired
    /\ wpc[item] = "idle"
    /\ work' = [work EXCEPT ![item] = FALSE]
    /\ expired' = expired \ {item}
    /\ wpc' = [wpc EXCEPT ![item] = "running"]
    /\ due' = IF item = "delayed_firmware_work"
              THEN [timer |-> 0, run |-> due.timer] ELSE due
    /\ UNCHANGED <<drvdata, event_vars, psy, obs_vars, mutex, rm_pc, unbind_saw,
                   sent>>

\* corsair_void_request_status: the transport takes the request while the
\* hardware is started, and fails it after hid_hw_stop
request_status(log, id, started) ==
    IF started /\ Len(log) < MaxSent THEN Append(log, id) ELSE log

\* the body of the two query handlers
QueryWorkRun(item, id) ==
    /\ wpc[item] = "running"
    /\ sent' = request_status(sent, id, rm_pc = "bound")
    /\ wpc' = [wpc EXCEPT ![item] = "idle"]
    /\ due' = IF item = "delayed_firmware_work" THEN [due EXCEPT !.run = 0] ELSE due
    /\ UNCHANGED <<drvdata, work, event_vars, psy, obs_vars, mutex, rm_pc,
                   unbind_saw, expired>>

StatusWorkRun ==
    QueryWorkRun("delayed_status_work", CORSAIR_VOID_BATTERY_REPORT_ID)

FirmwareWorkRun ==
    QueryWorkRun("delayed_firmware_work", CORSAIR_VOID_FIRMWARE_REPORT_ID)

\* mutex_lock(&drvdata->battery_mutex) in the add or the remove handler
BatteryWorkLock(item) ==
    /\ wpc[item] = "running"
    /\ MutexAvailable(mutex)
    /\ mutex' = item
    /\ wpc' = [wpc EXCEPT ![item] = "locked"]
    /\ UNCHANGED <<drvdata, work, event_vars, psy, obs_vars, rm_pc, unbind_saw,
                   expired, due, sent>>

\* the locked section of the add or the remove handler, and mutex_unlock
BatteryWorkRun(item, b) ==
    /\ wpc[item] = "locked"
    /\ drvdata' = [drvdata EXCEPT !.battery = b.handle]
    /\ psy' = b.psy
    /\ mutex' = "free"
    /\ wpc' = [wpc EXCEPT ![item] = "idle"]
    /\ UNCHANGED <<work, event_vars, obs_vars, rm_pc, unbind_saw,
                   expired, due, sent>>

BatteryAddWorkRun ==
    \E registered \in BOOLEAN :
        BatteryWorkRun("battery_add_work",
            RegisterBattery([handle |-> drvdata.battery, psy |-> psy], registered))

BatteryRemoveWorkRun ==
    BatteryWorkRun("battery_remove_work",
        UnregisterBattery([handle |-> drvdata.battery, psy |-> psy]))

\* hid_hw_stop: returns once no raw event is in progress; none starts after
RemoveHwStop ==
    /\ rm_pc = "bound"
    /\ pc = "idle"
    /\ rm_pc' = "hw_stopped"
    /\ unbind_saw' = [pending |-> {i \in WorkItems : work[i]},
                      running |-> {i \in WorkItems : wpc[i] # "idle"}]
    /\ UNCHANGED <<drvdata, work, event_vars, psy, obs_vars, wpc, mutex, expired, due, sent>>

\* a cancel that returns at once and leaves the item as it is
cancel_work_nowait(w, item) == w

\* cancel_work_sync and cancel_delayed_work_sync: the item is no longer pending
cancel_work_sync(w, item) == [w EXCEPT ![item] = FALSE]

\* a call of cancel_work_sync or cancel_delayed_work_sync in remove: it takes
\* the item off the queue or the timer and returns once its handler is idle
RemoveCancel(from, item, to) ==
    /\ rm_pc = from
    /\ wpc[item] = "idle"
    /\ work' = cancel_work_sync(work, item)
    /\ expired' = expired \ {item}
    /\ due' = IF item = "delayed_firmware_work" THEN [due EXCEPT !.timer = 0] ELSE due
    /\ rm_pc' = to
    /\ UNCHANGED <<drvdata, event_vars, psy, obs_vars, wpc, mutex, unbind_saw, sent>>

\* an unbind that leaves the battery object registered
UnbindUnregister_skipped(b) == b

\* 'if (drvdata->battery) power_supply_unregister(drvdata->battery)' in
\* remove: the handle keeps its value
UnbindUnregister(b) ==
    IF b.handle # "NULL" THEN [b EXCEPT !.psy = @ - 1] ELSE b

RemoveUnregister ==
    /\ rm_pc = "add_cancelled"
    /\ psy' = UnbindUnregister([handle |-> drvdata.battery, psy |-> psy]).psy
    /\ rm_pc' = "unregistered"
    /\ UNCHANGED <<drvdata, work, event_vars, obs_vars, wpc, mutex, unbind_saw,
                   expired, due, sent>>

\* sysfs_remove_group and the return of corsair_void_remove
RemoveReturn ==
    /\ rm_pc = "firmware_cancelled"
    /\ rm_pc' = "done"
    /\ UNCHANGED <<drvdata, work, event_vars, psy, obs_vars, wpc, mutex, unbind_saw,
                   expired, due, sent>>

corsair_void_remove ==
    \/ RemoveHwStop
    \/ RemoveCancel("hw_stopped", "battery_remove_work", "remove_cancelled")
    \/ RemoveCancel("remove_cancelled", "battery_add_work", "add_cancelled")
    \/ RemoveUnregister
    \/ RemoveCancel("unregistered", "delayed_firmware_work", "firmware_cancelled")
    \/ RemoveReturn

NextStep ==
    \/ RawEventDecode
    \/ RawEventLock
    \/ RawEventNotify
    \/ RawEventTransition
    \/ RawEventReturn /\ UNCHANGED obs_vars
    \/ TimerExpire
    \/ \E item \in WorkItems : WorkStart(item)
    \/ StatusWorkRun
    \/ FirmwareWorkRun
    \/ \E item \in {"battery_add_work", "battery_remove_work"} : BatteryWorkLock(item)
    \/ BatteryAddWorkRun
    \/ BatteryRemoveWorkRun
    \/ corsair_void_remove

SpecStep == Init /\ [][NextStep]_vars

(***************************************************************************)
(* corsair_void_probe, statement by statement.  The HID core holds the     *)
(* driver input lock of the device while probe runs and hid_input_report   *)
(* drops what arrives meanwhile, so the raw event is first called after    *)
(* probe has returned.                                                     *)
(***************************************************************************)

\* the memory devm_kzalloc returns: every field zero, which is Unknown for
\* the two power supply enums and NULL for the handle
ZeroedDrvdata ==
    [battery_data |-> [status |-> "Unknown", present |-> 0, capacity |-> 0,
                       capacity_level |-> "Unknown"],
     mic_up |-> 0,
     connected |-> 0,
     fw_receiver_major |-> 0,
     fw_receiver_minor |-> 0,
     fw_headset_major |-> 0,
     fw_headset_minor |-> 0,
     battery |-> "NULL"]

\* a probe that takes the headset to be attached until told otherwise
ProbeDefaults_connected(d) ==
    [corsair_void_set_unknown_batt([d |-> d]).d EXCEPT
        !.connected = 1, !.fw_receiver_major = 0, !.fw_receiver_minor = 0]

\* the initial values for no headset attached, and the receiver version
ProbeDefaults(d) ==
    [corsair_void_set_unknown_batt(corsair_void_set_unknown_data([d |-> d])).d EXCEPT
        !.fw_receiver_major = 0, !.fw_receiver_minor = 0]

\* reports are delivered from hid_hw_start on
DriverInputLocked_until_hw_start ==
    bind.pc \notin {"hw_started", "status_scheduled", "bound"}

\* the HID core delivers no report to the driver before probe has returned
DriverInputLocked == bind.pc # "bound"

\* the state when corsair_void_probe has allocated drvdata
InitProbe ==
    /\ drvdata = ZeroedDrvdata
    /\ work = [i \in WorkItems |-> FALSE]
    /\ pc = "idle"
    /\ hid_report = NoReport
    /\ was_connected = 0
    /\ changed = 0
    /\ wireless = <<>>
    /\ scheduled = <<>>
    /\ repeat = 0
    /\ psy = 0
    /\ n = [connect |-> 0, disconnect |-> 0, add_run |-> 0, remove_run |-> 0]
    /\ wpc = [i \in WorkItems |-> "idle"]
    /\ mutex = "free"
    /\ rm_pc = "bound"
    /\ unbind_saw = [pending |-> {}, running |-> {}]
    /\ expired = {}
    /\ due = [timer |-> 0, run |-> 0]
    /\ sent = <<>>
    /\ cmd = NoCommand
    /\ query = NoQuery
    /\ bind = [pc |-> "allocated", init |-> {}]
    /\ poll = NoPoll

\* probe moves from one position to the next and writes nothing else
ProbeStep(from, to) ==
    /\ bind.pc = from
    /\ bind' = [bind EXCEPT !.pc = to]
    /\ UNCHANGED <<drvdata, work, event_vars, psy, n, cmd, query, poll, step_vars>>

\* set_unknown_data, set_unknown_batt and the receiver version
ProbeSetDefaults ==
    /\ bind.pc = "allocated"
    /\ drvdata' = ProbeDefaults(drvdata)
    /\ bind' = [bind EXCEPT !.pc = "defaults_set"]
    /\ UNCHANGED <<work, event_vars, psy, n, cmd, query, poll, step_vars>>

\* hid_parse and the allocation of the name; then the handle is NULL, and
\* INIT_WORK of the two battery items
ProbeInitWork ==
    /\ bind.pc = "defaults_set"
    /\ drvdata' = [drvdata EXCEPT !.battery = "NULL"]
    /\ work' = [work EXCEPT !["battery_remove_work"] = FALSE,
                            !["battery_add_work"] = FALSE]
    /\ bind' = [pc |-> "work_initialised",
                init |-> bind.init \cup {"battery_remove_work", "battery_add_work"}]
    /\ UNCHANGED <<event_vars, psy, n, cmd, query, poll, step_vars>>

\* sysfs_create_group and hid_hw_start
ProbeHwStart == ProbeStep("work_initialised", "hw_started")

\* hid_parse, the allocation, sysfs_create_group or hid_hw_start fails
ProbeFail ==
    \E from \in {"defaults_set", "work_initialised"} : ProbeStep(from, "failed")

\* INIT_DELAYED_WORK of an item, and schedule_delayed_work in 100 ms
ProbeDelayedWork(item, from, to) ==
    /\ bind.pc = from
    /\ work' = [work EXCEPT ![item] = TRUE]
    /\ expired' = expired \ {item}
    /\ bind' = [pc |-> to, init |-> bind.init \cup {item}]
    /\ UNCHANGED <<drvdata, event_vars, psy, n, cmd, query, poll, wpc, mutex, rm_pc,
                   unbind_saw, due, sent>>

ProbeStatusWork ==
    ProbeDelayedWork("delayed_status_work", "hw_started", "status_scheduled")

ProbeFirmwareWork ==
    ProbeDelayedWork("delayed_firmware_work", "status_scheduled", "bound")

\* a report is delivered to the raw event
ProbeRawEvent ==
    /\ ~DriverInputLocked
    /\ RawEventOf(FewReports)
    /\ UNCHANGED obs_vars

NextProbe ==
    \/ ProbeSetDefaults
    \/ ProbeInitWork
    \/ ProbeHwStart
    \/ ProbeFail
    \/ ProbeStatusWork
    \/ ProbeFirmwareWork
    \/ ProbeRawEvent
    \/ RawEventReturn /\ UNCHANGED obs_vars
    \/ corsair_void_status_work_handler /\ UNCHANGED obs_vars
    \/ corsair_void_firmware_work_handler /\ UNCHANGED obs_vars
    \/ corsair_void_battery_remove_work_handler /\ UNCHANGED obs_vars
    \/ BatteryAddWork /\ UNCHANGED obs_vars

SpecProbe == InitProbe /\ [][NextProbe]_vars

(***************************************************************************)
(* SpecBound: the raw event and the work handlers step by step while the   *)
(* device stays bound, with a power supply core that registers every       *)
(* battery it is asked to.  SpecLive adds what the scheduling gives: the   *)
(* work queue runs every queued item, a timer that is armed runs out, a    *)
(* mutex that is free is handed to a waiter, and a raw event that has      *)
(* started runs to its return.                                             *)
(***************************************************************************)

TimerExpireObserved == TimerExpireOf(TRUE)

\* the locked section of the add handler with a registration that succeeds
LiveAddWorkRun ==
    BatteryWorkRun("battery_add_work",
        RegisterBattery([handle |-> drvdata.battery, psy |-> psy], TRUE))

\* the steps of the work queue and the handlers
LiveWork ==
    \/ \E item \in WorkItems : WorkStart(item)
    \/ StatusWorkRun
    \/ FirmwareWorkRun
    \/ \E item \in {"battery_add_work", "battery_remove_work"} : BatteryWorkLock(item)
    \/ LiveAddWorkRun
    \/ BatteryRemoveWorkRun

\* the steps of a raw event after its first
LiveEvent ==
    \/ RawEventLock
    \/ RawEventNotify
    \/ RawEventTransition
    \/ RawEventReturn /\ UNCHANGED obs_vars

NextBound ==
    \/ RawEventDecode
    \/ LiveEvent
    \/ TimerExpireObserved
    \/ LiveWork

SpecBound == Init /\ [][NextBound]_vars

\* a report that connects the headset and one that disconnects it
LiveReports ==
    {MakeReport(CORSAIR_VOID_BATTERY_REPORT_ID, 0, 100, CONNECTION_NORMAL, 1),
     MakeReport(CORSAIR_VOID_BATTERY_REPORT_ID, 0, 128, 51, 0)}

LiveDecode == RawEventDecodeOf(LiveReports)

NextLive ==
    \/ LiveDecode
    \/ LiveEvent
    \/ TimerExpire
    \/ LiveWork

SpecLive ==
    /\ Init
    /\ [][NextLive]_vars
    /\ WF_vars(TimerExpire)
    /\ \A item \in WorkItems : WF_vars(WorkStart(item))
    /\ WF_vars(StatusWorkRun)
    /\ WF_vars(FirmwareWorkRun)
    /\ \A item \in {"battery_add_work", "battery_remove_work"} :
          SF_vars(BatteryWorkLock(item))
    /\ WF_vars(LiveAddWorkRun)
    /\ WF_vars(BatteryRemoveWorkRun)
    /\ SF_vars(LiveEvent)

(***************************************************************************)
(* Properties.                                                             *)
(***************************************************************************)

\* the raw event is at its return, having handled a battery report
BatteryHandled ==
    pc = "handled" /\ hid_report.id = CORSAIR_VOID_BATTERY_REPORT_ID

\* a step in which the raw event handles a battery report
BatteryEvent ==
    /\ pc' = "handled"
    /\ pc = "idle" \/ repeat' = repeat + 1
    /\ hid_report'.id = CORSAIR_VOID_BATTERY_REPORT_ID

\* the device state: every field of drvdata but the battery object handle
DeviceState(d) ==
    <<d.connected, d.mic_up, d.battery_data, d.fw_receiver_major,
      d.fw_receiver_minor, d.fw_headset_major, d.fw_headset_minor>>

\* C1: when the handler has processed a battery report, connected is set
\* exactly when byte 3 of that report is 177, whatever connected was before;
\* a report with any other id leaves connected as it was.
C1_ConnectedIffNormal ==
    pc = "handled" =>
        IF hid_report.id = 100
        THEN (drvdata.connected = 1) <=> (hid_report.data[3] = 177)
        ELSE drvdata.connected = was_connected

\* C1 witness: a battery report with byte 3 = 177 connected a disconnected headset
C1_Witness ==
    /\ BatteryHandled
    /\ hid_report.data[3] = 177
    /\ was_connected = 0
    /\ drvdata.connected = 1

\* C2: in every state, a battery that is not present has status Unknown,
\* capacity 0 and capacity level Unknown.
C2_AbsentBatteryUnknown ==
    drvdata.battery_data.present = 0 =>
        /\ drvdata.battery_data.status = "Unknown"
        /\ drvdata.battery_data.capacity = 0
        /\ drvdata.battery_data.capacity_level = "Unknown"

\* C2 witness: a connected headset with a known battery sent an unrecognised
\* status code, and the record it had was reset as a whole
C2_Witness ==
    /\ BatteryHandled
    /\ was_connected = 1
    /\ hid_report.data[3] = 177
    /\ hid_report.data[4] = 6
    /\ changed = 1
    /\ drvdata.battery_data.present = 0

\* C3 (as claimed): in every state, connected = 0 implies that the headset
\* firmware pair is (0,0) and that mic_up is 0.
C3_DisconnectedUnknown ==
    drvdata.connected = 0 =>
        /\ drvdata.fw_headset_major = 0
        /\ drvdata.fw_headset_minor = 0
        /\ drvdata.mic_up = 0

\* C4: after a battery report whose connection code is not 177, or whose
\* connection code is 177 and whose status code is 0, the battery record is the
\* unknown record.
C4_UnavailableIsUnknown ==
    (BatteryHandled /\ (hid_report.data[3] # 177 \/ hid_report.data[4] = 0)) =>
        drvdata.battery_data =
            [status |-> "Unknown", present |-> 0, capacity |-> 0,
             capacity_level |-> "Unknown"]

\* C4 witness: a connected report with status code 0 replaced a known record
C4_Witness ==
    /\ BatteryHandled
    /\ hid_report.data[3] = 177
    /\ hid_report.data[4] = 0
    /\ changed = 1
    /\ drvdata.battery_data.present = 0

\* C5: after a battery report with connection code 177 and status code 1..5 the
\* battery is present, its capacity is the low 7 bits of byte 2, its status is
\* Discharging for 1, 2, 3, Full for 4 and Charging for 5, and its level is Low
\* for 2, Critical for 3 and Normal for 1, 4 and 5.
C5_KnownBatteryMapping ==
    (BatteryHandled /\ hid_report.data[3] = 177 /\ hid_report.data[4] \in 1..5) =>
        LET code == hid_report.data[4]
            byte == hid_report.data[2]
        IN  /\ drvdata.battery_data.present = 1
            /\ drvdata.battery_data.capacity = (IF byte >= 128 THEN byte - 128 ELSE byte)
            /\ drvdata.battery_data.status =
                  (IF code = 4 THEN "Full" ELSE IF code = 5 THEN "Charging"
                   ELSE "Discharging")
            /\ drvdata.battery_data.capacity_level =
                  (IF code = 2 THEN "Low" ELSE IF code = 3 THEN "Critical"
                   ELSE "Normal")

\* C5 witness: status code 5 with byte 2 = 255 gives a charging battery
C5_Witness ==
    /\ BatteryHandled
    /\ hid_report.data[3] = 177
    /\ hid_report.data[4] = 5
    /\ hid_report.data[2] = 255
    /\ drvdata.battery_data.status = "Charging"
    /\ drvdata.battery_data.capacity = 127

\* C6: a battery report with connection code 177 and a status code outside 0..5
\* leaves the whole unknown record, none of the fields written before the
\* switch, and the handler completes with connected set.
C6_UnknownStatusFallback ==
    (BatteryHandled /\ hid_report.data[3] = 177 /\ hid_report.data[4] \notin 0..5) =>
        /\ drvdata.battery_data.present = 0
        /\ drvdata.battery_data.status = "Unknown"
        /\ drvdata.battery_data.capacity = 0
        /\ drvdata.battery_data.capacity_level = "Unknown"
        /\ drvdata.connected = 1

\* C6 witness: the report that connects the headset carries status code 6, and
\* the connect handler has run
C6_Witness ==
    /\ BatteryHandled
    /\ hid_report.data[3] = 177
    /\ hid_report.data[4] = 6
    /\ was_connected = 0
    /\ drvdata.connected = 1
    /\ Len(scheduled) = 2

\* C7 (as claimed): the battery capacity is within 0..100 in every state.
C7_CapacityPercent ==
    drvdata.battery_data.capacity \in 0..100

\* C8 (as claimed): a battery report is followed by a battery-changed
\* notification exactly when a field of the battery record differs from its
\* value before the report.
C8_NotifyIffChanged ==
    [][BatteryEvent =>
        ((changed' = 1) <=> (drvdata'.battery_data # drvdata.battery_data))]_vars

\* C8 (amended): a battery report is followed by one battery-changed
\* notification exactly when a field of the battery record differs from its
\* value before the report and a battery object is registered; otherwise by none.
C8_NotifyIffChangedAndRegistered ==
    [][BatteryEvent =>
        /\ changed' \in {0, 1}
        /\ (changed' = 1) <=>
              /\ drvdata'.battery_data # drvdata.battery_data
              /\ drvdata.battery # "NULL"]_vars

\* C8 witness: the connecting report changed the record while no battery object
\* was registered, and no notification was made
C8_Witness ==
    /\ BatteryHandled
    /\ was_connected = 0
    /\ drvdata.battery_data.present = 1
    /\ drvdata.battery = "NULL"
    /\ changed = 0
    /\ repeat = 0

\* C9 (as claimed): the same battery report delivered a second time in a row
\* makes no battery-changed notification and leaves the device state as it was
\* after the first.
C9_RepeatIsIdempotent ==
    [][(BatteryEvent /\ repeat' = repeat + 1) =>
        /\ changed' = 0
        /\ DeviceState(drvdata') = DeviceState(drvdata)]_vars

\* C10: a battery report that changes connected from 0 to 1 schedules exactly
\* the battery-object creation and the firmware query delayed by 100 ms, and no
\* battery-status query; one that leaves connected as it was schedules nothing.
C10_ConnectSchedules ==
    [][BatteryEvent =>
        /\ (drvdata.connected = 0 /\ drvdata'.connected = 1) =>
              /\ scheduled' = <<[item |-> "battery_add_work", delay |-> 0],
                                [item |-> "delayed_firmware_work", delay |-> 100]>>
              /\ work' = [work EXCEPT !["battery_add_work"] = TRUE,
                                      !["delayed_firmware_work"] = TRUE]
        /\ (drvdata'.connected = drvdata.connected) =>
              /\ scheduled' = <<>>
              /\ work' = work]_vars

\* C10 witness: a connecting report was handled while neither the creation nor
\* the firmware query was pending before
C10_Witness ==
    /\ BatteryHandled
    /\ was_connected = 0
    /\ drvdata.connected = 1
    /\ scheduled = <<[item |-> "battery_add_work", delay |-> 0],
                     [item |-> "delayed_firmware_work", delay |-> 100]>>
    /\ ~work["delayed_status_work"]

\* a step in which a battery report takes connected from 1 to 0
DisconnectEvent ==
    BatteryEvent /\ drvdata.connected = 1 /\ drvdata'.connected = 0

\* the headset firmware version pair
FwHeadset(d) == <<d.fw_headset_major, d.fw_headset_minor>>

\* C11: when a battery report changes connected from 1 to 0, the state the
\* handler leaves, before any worker has run, has the battery-object removal
\* enqueued, the headset firmware pair at (0,0), mic_up at 0 even if the mic
\* bit of the report was set, and the unknown battery record.
C11_DisconnectResets ==
    [][DisconnectEvent =>
        /\ scheduled' = <<[item |-> "battery_remove_work", delay |-> 0]>>
        /\ work' = [work EXCEPT !["battery_remove_work"] = TRUE]
        /\ FwHeadset(drvdata') = <<0, 0>>
        /\ drvdata'.mic_up = 0
        /\ drvdata'.battery_data = UnknownBattery]_vars

\* C11 witness: a disconnecting report with the mic bit set was handled while
\* the headset firmware version was known, and both were reset
C11_Witness ==
    /\ BatteryHandled
    /\ was_connected = 1
    /\ drvdata.connected = 0
    /\ hid_report.data[2] >= 128
    /\ drvdata.mic_up = 0
    /\ drvdata.fw_receiver_major # 0
    /\ FwHeadset(drvdata) = <<0, 0>>
    /\ scheduled = <<[item |-> "battery_remove_work", delay |-> 0]>>

\* C12: once the creation is not pending, it has run once for every change of
\* connected from 0 to 1, and once the removal is not pending, it has run once
\* for every change from 1 to 0, also when connected changed several times
\* before the worker ran.
C12_OncePerTransition ==
    /\ ~work["battery_add_work"] => n.add_run = n.connect
    /\ ~work["battery_remove_work"] => n.remove_run = n.disconnect

\* C13: a disconnecting report leaves the headset firmware pair at (0,0), and
\* any step that makes the pair non-zero handles a firmware report (id 0x66):
\* battery reports, a reconnect included, and the workers leave it at (0,0).
C13_FirmwareOnlyFromReport ==
    [][/\ DisconnectEvent => FwHeadset(drvdata') = <<0, 0>>
       /\ (FwHeadset(drvdata') # FwHeadset(drvdata)
             /\ FwHeadset(drvdata') # <<0, 0>>) =>
             /\ pc' = "handled"
             /\ hid_report'.id = 102]_vars

\* C13 witness: the headset reconnected after a disconnect that followed a
\* firmware report, and the headset firmware pair is still (0,0)
C13_Witness ==
    /\ BatteryHandled
    /\ n.disconnect >= 1
    /\ n.connect >= 2
    /\ drvdata.connected = 1
    /\ drvdata.fw_receiver_major # 0
    /\ FwHeadset(drvdata) = <<0, 0>>

\* C14: a run of the creation with a handle registered, and a run of the
\* removal with none registered, change neither the handle nor the registered
\* objects; the core never holds more than one battery object nor fewer than
\* none, and it holds one exactly when the handle is set.
C14_CreateDestroyIdempotent ==
    [][/\ (n'.add_run = n.add_run + 1 /\ drvdata.battery # "NULL") =>
             drvdata'.battery = drvdata.battery /\ psy' = psy
       /\ (n'.remove_run = n.remove_run + 1 /\ drvdata.battery = "NULL") =>
             drvdata'.battery = drvdata.battery /\ psy' = psy
       /\ psy' \in {0, 1}
       /\ (psy' = 1) <=> (drvdata'.battery = "registered")]_vars

\* C14 witness: the creation ran twice without a removal in between and one
\* object is registered
C14_Witness ==
    /\ n.add_run = 2
    /\ n.remove_run = 0
    /\ psy = 1
    /\ drvdata.battery = "registered"

\* the contexts inside a section that reads or writes drvdata.battery
InBatterySection ==
    {i \in {"battery_add_work", "battery_remove_work"} : wpc[i] = "locked"}
        \cup (IF pc = "locked" THEN {"raw_event"} ELSE {})

\* C15: of the add handler, the remove handler and the raw event at most one
\* is inside a section that reads or writes the battery handle, and it is the
\* one that holds battery_mutex; the power supply core never holds two
\* battery objects nor fewer than none, and until unbind unregisters, it
\* holds one exactly when the handle is set.
C15_MutualExclusion ==
    /\ Cardinality(InBatterySection) <= 1
    /\ InBatterySection = {} <=> mutex = "free"
    /\ InBatterySection # {} => mutex \in InBatterySection
    /\ psy \in {0, 1}
    /\ rm_pc \in {"bound", "hw_stopped", "remove_cancelled", "add_cancelled"} =>
          ((psy = 1) <=> (drvdata.battery = "registered"))

\* C15 witness: the add handler is inside its section with a battery object
\* registered while the remove handler and a raw event wait for the mutex
C15_Witness ==
    /\ wpc["battery_add_work"] = "locked"
    /\ wpc["battery_remove_work"] = "running"
    /\ pc = "lock"
    /\ psy = 1

\* C16: once remove has returned, none of the four work items is pending or
\* running.
C16_UnbindCancelsAll ==
    rm_pc = "done" =>
        \A i \in WorkItems : ~work[i] /\ wpc[i] = "idle"

\* C17: once remove has returned, the firmware query is neither pending nor
\* running, in this and every later state: it was cancelled before it
\* started, or remove waited for its handler to finish.
C17_FirmwareNeverAfterUnbind ==
    rm_pc = "done" =>
        /\ ~work["delayed_firmware_work"]
        /\ wpc["delayed_firmware_work"] = "idle"

\* C17 witness: remove has returned after it started while the firmware
\* handler was running and the firmware query was pending again
C17_Witness ==
    /\ rm_pc = "done"
    /\ "delayed_firmware_work" \in unbind_saw.running
    /\ "delayed_firmware_work" \in unbind_saw.pending

\* C18: from the moment remove tears the battery object down, the creation
\* and the removal are neither pending nor running, and once remove has
\* returned no battery object is registered.
C18_NoBatteryAfterUnbind ==
    /\ rm_pc \in {"add_cancelled", "unregistered", "firmware_cancelled", "done"} =>
          \A i \in {"battery_add_work", "battery_remove_work"} :
              ~work[i] /\ wpc[i] = "idle"
    /\ rm_pc = "done" => psy = 0

\* C18 witness: remove has returned; it started with the headset connected,
\* the creation running and the removal pending, and it found a battery
\* object to unregister
C18_Witness ==
    /\ rm_pc = "done"
    /\ psy = 0
    /\ drvdata.battery = "registered"
    /\ drvdata.connected = 1
    /\ "battery_add_work" \in unbind_saw.running
    /\ "battery_remove_work" \in unbind_saw.pending

\* C19: the first query the headset is asked after bind is the battery
\* status query: the firmware query is never transmitted before it.
C19_StatusQueryFirst ==
    sent # <<>> => sent[1] = CORSAIR_VOID_BATTERY_REPORT_ID

\* a step in which a command returns; repeating the last command with the
\* same outcome changes nothing at all
CommandStep == cmd' # cmd

\* C20: an alert or sidetone command that finds connected = 0 returns -ENODEV
\* whatever was written, hands nothing to the transport and changes no field
\* of drvdata; a command that hands a request to the transport found
\* connected = 1.
C20_CommandNeedsConnection ==
    [][CommandStep =>
        /\ drvdata' = drvdata
        /\ cmd'.connected = drvdata.connected
        /\ drvdata.connected = 0 =>
              cmd'.ret = Err("ENODEV") /\ cmd'.out = <<>>
        /\ cmd'.out # <<>> => drvdata.connected = 1]_vars

\* C20 witness: a sidetone command with a valid value was refused while the
\* headset was disconnected
C20_Witness ==
    /\ cmd.op = "send_sidetone"
    /\ cmd.buf = <<"+", "5", "5">>
    /\ cmd.connected = 0
    /\ cmd.ret = Err("ENODEV")
    /\ cmd.out = <<>>

\* the number a command was given, -1 if kstrtou8 refused what was written
CommandValue(c) ==
    IF kstrtou8(c.buf).ok THEN kstrtou8(c.buf).value ELSE -1

\* C21: a command that found the headset connected hands a request to the
\* transport only if its value is 0 or 1 (alert) or in 0..55 (sidetone); any
\* other input returns -EINVAL and hands over nothing, and a value in range
\* is handed over unless the buffer of the sidetone could not be allocated.
C21_RangeChecked ==
    (cmd.op # "none" /\ cmd.connected = 1) =>
        LET in_range == IF cmd.op = "send_alert"
                        THEN CommandValue(cmd) \in {0, 1}
                        ELSE CommandValue(cmd) \in 0..55
        IN  /\ ~in_range => cmd.ret = Err("EINVAL") /\ cmd.out = <<>>
            /\ cmd.out # <<>> => in_range
            /\ in_range =>
                  \/ cmd.out # <<>>
                  \/ cmd.op = "send_sidetone" /\ cmd.ret = Err("ENOMEM")

\* C21 witness: sidetone 56 was refused with -EINVAL while connected
C21_Witness ==
    /\ cmd.op = "send_sidetone"
    /\ cmd.connected = 1
    /\ cmd.buf = <<"5", "6">>
    /\ cmd.ret = Err("EINVAL")
    /\ cmd.out = <<>>

\* C22: the request of a sidetone command is 64 bytes long; its bytes 0..10
\* are FF 0B 00 FF 04 0E FF 05 01 04 00, its byte 11 is the level plus 200,
\* which is at most 255, and its bytes 12..63 are zero.
C22_SidetoneBuffer ==
    (cmd.op = "send_sidetone" /\ cmd.out # <<>>) =>
        /\ cmd.out.len = 64
        /\ DOMAIN cmd.out.data = 1..64
        /\ \A i \in 1..11 :
              cmd.out.data[i] = <<255, 11, 0, 255, 4, 14, 255, 5, 1, 4, 0>>[i]
        /\ cmd.out.data[12] = CommandValue(cmd) + 200
        /\ cmd.out.data[12] \in 200..255
        /\ \A i \in 13..64 : cmd.out.data[i] = 0

\* C22 witness: sidetone 55 was handed to the transport with byte 11 at 255
C22_Witness ==
    /\ cmd.op = "send_sidetone"
    /\ cmd.buf = <<"5", "5">>
    /\ cmd.out # <<>>
    /\ cmd.out.data[12] = 255

\* C23: the request of an alert command is the three bytes CA 02 alert_id
\* with alert_id 0 or 1; the requests for 0 and 1 differ in the last byte and
\* nowhere else.
C23_AlertBuffer ==
    /\ (cmd.op = "send_alert" /\ cmd.out # <<>>) =>
          /\ cmd.out.len = 3
          /\ CommandValue(cmd) \in {0, 1}
          /\ cmd.out.data = <<202, 2, CommandValue(cmd)>>
    /\ LET b0 == corsair_void_send_alert(1, <<"0">>, TRUE).out.data
           b1 == corsair_void_send_alert(1, <<"1">>, TRUE).out.data
       IN  /\ Len(b0) = 3 /\ Len(b1) = 3
           /\ b0[1] = b1[1] /\ b0[2] = b1[2] /\ b0[3] # b1[3]

\* C23 witness: alert 1 was handed to the transport
C23_Witness ==
    /\ cmd.op = "send_alert"
    /\ cmd.buf = <<"1">>
    /\ cmd.out # <<>>
    /\ cmd.out.data = <<202, 2, 1>>

\* C24: a command whose request the transport failed returns the error of
\* the transport, one whose request the transport took returns the number of
\* characters written, and neither changes a field of drvdata.
C24_TransportErrorReturned ==
    [][CommandStep =>
        /\ drvdata' = drvdata
        /\ cmd'.io = "EIO" => cmd'.ret = Err("EIO")
        /\ cmd'.io = "0" => cmd'.ret = Ok(Len(cmd'.buf))
        /\ cmd'.io = "none" <=> cmd'.out = <<>>]_vars

\* C24 witness: the transport failed the request of a sidetone command and
\* the command returned its error
C24_Witness ==
    /\ cmd.op = "send_sidetone"
    /\ cmd.out # <<>>
    /\ cmd.io = "EIO"
    /\ cmd.ret = Err("EIO")

\* a step in which the handler of a delayed item has run
QueryRun(item) == item \in DelayedItems /\ work[item] /\ ~work'[item]

\* C25: a run of the status or the firmware handler hands the transport
\* exactly one request, the two bytes C9 and the id of the report asked for;
\* request_status returns the error of the transport when it fails, and the
\* run sends nothing again, schedules no work item and writes no field.
C25_OneAttempt ==
    [][\A item \in DelayedItems : QueryRun(item) =>
        /\ query'.id = IF item = "delayed_status_work" THEN 100 ELSE 102
        /\ Len(query'.attempts) = 1
        /\ query'.attempts[1].len = 2
        /\ query'.attempts[1].data = <<201, query'.id>>
        /\ query'.io = "EIO" => query'.ret = "EIO"
        /\ query'.io = "0" => query'.ret = "0"
        /\ work' = [work EXCEPT ![item] = FALSE]
        /\ drvdata' = drvdata]_vars

\* C25 witness: the transport failed the firmware query that a connect had
\* scheduled, and no work item is pending
C25_Witness ==
    /\ query.id = 102
    /\ query.io = "EIO"
    /\ query.ret = "EIO"
    /\ drvdata.connected = 1
    /\ \A item \in WorkItems : ~work[item]

\* C26: a step of a work handler leaves connected, mic_up, the battery data
\* and both firmware pairs as they were, whether its request or its
\* registration failed or not; of drvdata it writes the battery handle only.
C26_WorkersLeaveDeviceState ==
    [][pc' = pc => DeviceState(drvdata') = DeviceState(drvdata)]_vars

\* C26 witness: the firmware query of a connected headset failed, the battery
\* object was registered from the worker, and the headset firmware pair is
\* still unknown
C26_Witness ==
    /\ query.id = 102
    /\ query.io = "EIO"
    /\ drvdata.connected = 1
    /\ drvdata.battery = "registered"
    /\ FwHeadset(drvdata) = <<0, 0>>

\* C27: a raw event whose report is not 5 bytes long changes no field of the
\* device state, notifies nobody and schedules no work item.
C27_MalformedDropped ==
    [][(pc = "idle" /\ pc' = "handled" /\ hid_report'.size # 5) =>
        /\ DeviceState(drvdata') = DeviceState(drvdata)
        /\ changed' = 0
        /\ scheduled' = <<>>
        /\ work' = work]_vars

\* C28: when probe returns nothing has been asked of the headset and no
\* battery object is registered; while the device is bound, a step that asks
\* the headset for a report, registers or unregisters the battery object or
\* writes its handle is the step of a work handler: a raw event does neither.
C28_OnlyWorkersTransmit ==
    /\ sent = <<>> /\ psy = 0
    /\ [][(rm_pc' = rm_pc /\ (sent' # sent \/ psy' # psy
                                 \/ drvdata'.battery # drvdata.battery)) =>
            /\ pc' = pc
            /\ \E item \in WorkItems : wpc[item] # "idle" /\ wpc'[item] = "idle"]_vars

\* C28 witness: a raw event has handled a connect before any timer ran out:
\* the creation and the firmware query are pending, nothing was asked of the
\* headset and no battery object is registered
C28_Witness ==
    /\ pc = "handled"
    /\ was_connected = 0
    /\ drvdata.connected = 1
    /\ work["battery_add_work"]
    /\ work["delayed_firmware_work"]
    /\ sent = <<>>
    /\ psy = 0
    /\ rm_pc = "bound"

\* C29: a battery report publishes the wireless status, with the new value
\* of connected, exactly once if it changes connected and not at all if it
\* leaves connected as it was.
C29_WirelessOnChange ==
    [][BatteryEvent =>
        wireless' = IF drvdata'.connected # drvdata.connected
                    THEN <<drvdata'.connected>>
                    ELSE <<>>]_vars

\* the pair a read of the attribute name has to report
StoredFirmware(d, name) ==
    IF name = "fw_version_receiver"
    THEN <<d.fw_receiver_major, d.fw_receiver_minor>>
    ELSE <<d.fw_headset_major, d.fw_headset_minor>>

\* the pair that the text "major.minor\n" stands for
ParsedFirmware(text) ==
    LET dot == CHOOSE i \in 1..Len(text) : text[i] = "."
    IN  <<DecimalValue(SubSeq(text, 1, dot - 1)),
          DecimalValue(SubSeq(text, dot + 1, Len(text) - 1))>>

\* C30: a read of fw_version_receiver or fw_version_headset returns -ENODATA
\* exactly when the stored pair is (0,0); otherwise it writes a text that
\* reads back as the stored pair, also when one of the two is 0.
C30_FirmwareNoData ==
    [][(CommandStep /\ cmd'.op \in {"fw_version_receiver", "fw_version_headset"}) =>
        LET pair == StoredFirmware(drvdata, cmd'.op)
        IN  /\ drvdata' = drvdata
            /\ (cmd'.ret = Err("ENODATA")) <=> (pair = <<0, 0>>)
            /\ pair # <<0, 0>> =>
                  /\ cmd'.ret = Ok(Len(cmd'.out))
                  /\ cmd'.out[Len(cmd'.out)] = "\n"
                  /\ ParsedFirmware(cmd'.out) = pair]_vars

\* C30 witness: the headset version 0.3 was read as data while the receiver
\* version is unknown
C30_Witness ==
    /\ cmd.op = "fw_version_headset"
    /\ cmd.out = <<"0", ".", "0", "3", "\n">>
    /\ cmd.ret = Ok(5)
    /\ StoredFirmware(drvdata, "fw_version_receiver") = <<0, 0>>
    /\ StoredFirmware(drvdata, "fw_version_headset") = <<0, 3>>


\* the device state and the handle as probe leaves them
BindDefaults ==
    /\ drvdata.connected = 0
    /\ drvdata.mic_up = 0
    /\ drvdata.battery_data = UnknownBattery
    /\ drvdata.fw_receiver_major = 0 /\ drvdata.fw_receiver_minor = 0
    /\ drvdata.fw_headset_major = 0 /\ drvdata.fw_headset_minor = 0
    /\ drvdata.battery = "NULL"
    /\ psy = 0

\* C31: when probe returns, which is before the first report can be handled,
\* the device is not connected, the microphone is down, the battery record
\* is the unknown record, both firmware pairs are (0, 0) and the handle is
\* NULL; the same holds at every position of probe after the defaults are set
C31_BindDefaults ==
    [][(bind'.pc \notin {"allocated", "bound"}
            \/ (bind.pc # "bound" /\ bind'.pc = "bound")) => BindDefaults']_vars

\* probe has returned with both queries scheduled and no report handled
C31_Witness ==
    /\ bind.pc = "bound"
    /\ BindDefaults
    /\ work["delayed_status_work"] /\ work["delayed_firmware_work"]
    /\ hid_report = NoReport

C32_Byte2Decode ==
    (pc = "handled" /\ hid_report.id = 100) =>
        LET byte == hid_report.data[2]
            bit7 == IF byte >= 128 THEN 1 ELSE 0
        IN  /\ FIELD_GET_MIC(byte) = bit7
            /\ FIELD_GET_CAPACITY(byte) = byte - 128 * bit7
            /\ FIELD_GET_CAPACITY(byte) \in 0..127
            /\ FIELD_GET_CAPACITY(byte) + 128 * FIELD_GET_MIC(byte) = byte
            /\ (was_connected = 1 /\ drvdata.connected = 0) \/ drvdata.mic_up = bit7
            /\ (hid_report.data[3] = 177 /\ hid_report.data[4] = 1) =>
                  /\ drvdata.battery_data.present = 1
                  /\ drvdata.battery_data.capacity = byte - 128 * bit7

\* byte 255 of a report to a connected headset is stored as capacity 127
\* with the microphone up
C32_Witness ==
    /\ pc = "handled" /\ hid_report.id = 100
    /\ hid_report.data[2] = 255
    /\ drvdata.battery_data.capacity = 127 /\ drvdata.mic_up = 1
    /\ was_connected = 1

\* no work item is pending, no handler is running and no report is being
\* handled
Quiescent ==
    /\ \A item \in WorkItems : ~work[item] /\ wpc[item] = "idle"
    /\ pc \in {"idle", "handled"}

\* C33: whenever nothing is pending or running on a bound device whose
\* registrations succeed, there is a registered battery object exactly when
\* the headset is connected
C33_HandleIffConnected ==
    (Quiescent /\ rm_pc = "bound") =>
        ((drvdata.battery = "registered" /\ psy = 1) <=> (drvdata.connected = 1))

\* the raw event is at its return, having handled a connect; the items the
\* connect scheduled are pending in the state the connect leaves
ConnectHandled ==
    pc = "handled" /\ was_connected = 0 /\ drvdata.connected = 1

\* the firmware handler has run: no firmware query is pending or running
FirmwareQueryDone ==
    ~work["delayed_firmware_work"] /\ wpc["delayed_firmware_work"] = "idle"

\* a step in which the firmware handler hands its request to the transport
FirmwareTransmit ==
    /\ wpc["delayed_firmware_work"] = "running"
    /\ wpc'["delayed_firmware_work"] = "idle"
    /\ rm_pc = "bound"

\* the step of the raw event that handles a connect
ConnectStep ==
    /\ pc = "transition" /\ pc' = "handled"
    /\ was_connected = 0 /\ drvdata.connected = 1

ProbeQuerySent == \E k \in 1..Len(sent) : sent[k] = 102

\* C39: a firmware query that a connect scheduled is handed to the transport
\* only if the headset was connected when its delay ran out
C39_QueryOnlyIfConnected ==
    [][(FirmwareTransmit /\ ProbeQuerySent) => due.run = 1]_vars

\* C35: power_supply_changed is called only by a raw event that holds
\* battery_mutex, on a handle that is a registered object of the power
\* supply core then and after the call, while neither battery handler is in
\* its locked section
C35_NotifyRegistered ==
    [][(changed' = 1 /\ changed = 0) =>
        /\ mutex = "raw_event"
        /\ drvdata.battery = "registered" /\ drvdata'.battery = "registered"
        /\ psy = 1 /\ psy' = 1
        /\ \A item \in {"battery_add_work", "battery_remove_work"} :
              wpc[item] # "locked"]_vars

\* a notification was delivered while the remove handler waits for the mutex
C35_Witness ==
    /\ changed = 1
    /\ pc = "transition"
    /\ drvdata.battery = "registered"
    /\ wpc["battery_remove_work"] = "running"

\* a step in which the raw event handles a report that is no battery report
OtherEvent ==
    /\ pc' = "handled"
    /\ pc = "idle" \/ repeat' = repeat + 1
    /\ hid_report'.id # CORSAIR_VOID_BATTERY_REPORT_ID

\* the raw event made no call to the power supply core, the USB core or the
\* work queue, and no work item became pending
NoCalls ==
    /\ changed' = 0
    /\ wireless' = <<>>
    /\ scheduled' = <<>>
    /\ work' = work
    /\ psy' = psy

\* C36: handling a firmware report writes the four firmware fields from
\* bytes 1..4 and nothing else: connected, mic_up, the battery record and the
\* handle stay, no notification is sent and nothing is scheduled; handling a
\* report with an id other than 100 and 102 changes nothing
C36_FirmwareFrame ==
    [][OtherEvent =>
        /\ NoCalls
        /\ drvdata'.connected = drvdata.connected
        /\ drvdata'.mic_up = drvdata.mic_up
        /\ drvdata'.battery_data = drvdata.battery_data
        /\ drvdata'.battery = drvdata.battery
        /\ IF hid_report'.id = 102
           THEN /\ drvdata'.fw_receiver_major = hid_report'.data[1]
                /\ drvdata'.fw_receiver_minor = hid_report'.data[2]
                /\ drvdata'.fw_headset_major = hid_report'.data[3]
                /\ drvdata'.fw_headset_minor = hid_report'.data[4]
           ELSE drvdata' = drvdata]_vars

\* a firmware report was handled for a connected headset with a registered
\* battery object and the microphone up
C36_Witness ==
    /\ pc = "handled" /\ hid_report.id = 102
    /\ drvdata.connected = 1 /\ drvdata.mic_up = 1
    /\ drvdata.battery = "registered"
    /\ drvdata.battery_data.present = 1
    /\ StoredFirmware(drvdata, "fw_version_headset") = <<1, 2>>

\* the receiver firmware version pair
FwReceiver(d) == <<d.fw_receiver_major, d.fw_receiver_minor>>

\* C37: the receiver firmware pair changes only in a step in which the raw
\* event handles a firmware report, and then to bytes 1 and 2 of the report;
\* a disconnect zeroes the headset pair and leaves the receiver pair
C37_ReceiverPairFrame ==
    [][/\ FwReceiver(drvdata') # FwReceiver(drvdata) =>
            /\ OtherEvent /\ hid_report'.id = 102
            /\ FwReceiver(drvdata') = <<hid_report'.data[1], hid_report'.data[2]>>
       /\ DisconnectEvent =>
            /\ FwReceiver(drvdata') = FwReceiver(drvdata)
            /\ FwHeadset(drvdata') = <<0, 0>>]_vars

\* a disconnect was handled and the receiver pair is still what the last
\* firmware report said
C37_Witness ==
    /\ pc = "handled" /\ hid_report.id = 100
    /\ was_connected = 1 /\ drvdata.connected = 0
    /\ FwReceiver(drvdata) = <<1, 2>>
    /\ FwHeadset(drvdata) = <<0, 0>>

\* C40: corsair_void_read_battery makes at most 5 attempts, the loop is
\* left after the fifth whatever the transport answered, and when the
\* function is done with a transport error, a report id other than 100 or a
\* length other than 5 the battery record is the unknown record
C40_PollBounded ==
    /\ poll.attempts <= 5
    /\ poll.pc = "loop" => poll.attempts < 5
    /\ poll.pc = "done" =>
          ((poll.ret # "0" \/ poll.data_buf.id # 100 \/ poll.actual_size # 5) =>
              poll.battery_data = UnknownBattery)

\* the control message failed on each of five attempts, and a battery
\* record that was known when the function was called is unknown now
C40_Witness ==
    /\ poll.pc = "done"
    /\ poll.attempts = 5 /\ poll.ctrl_failed = 5
    /\ poll.ret = "EPIPE"
    /\ poll.orig.present = 1
    /\ poll.battery_data = UnknownBattery

=============================================================================
